---- MODULE Spec2Model ----
(***************************************************************************)
(* Model of CryptoAnalyzer (src/src/analyzer.py): the indicator engine     *)
(* (calculate_technical_indicators), the signal generator                  *)
(* (generate_signals) and the risk engine (calculate_risk_metrics,         *)
(* calculate_max_drawdown).                                                *)
(*                                                                         *)
(* A pandas Series is a sequence of cells, a DataFrame a record of         *)
(* columns.  A float cell is a pair <<n, d>>: the rational n/d in lowest   *)
(* terms when d > 0, and the IEEE specials when d = 0 (<<0,0>> is NaN,     *)
(* <<1,0>> is +inf, <<-1,0>> is -inf).  Arithmetic is exact: float64       *)
(* rounding is not modelled, so an equality or an order between cells is   *)
(* the one of the real numbers the floats approximate.  An irrational      *)
(* square root is a triple <<a, b, c>> (a + b * sqrt(c)); a finite value   *)
(* too large to evaluate is a 4-tuple naming its operation and operands.   *)
(***************************************************************************)
EXTENDS Integers, Sequences, FiniteSets, TLC

VARIABLES data, df, signals, metrics, analysis_results, files, returned, clock, call

\* self.analysis_results, the files written, the value the last call returned,
\* the reading of datetime.now() and the last call made (its arguments as given)
analyzer_vars == <<analysis_results, files, returned, clock, call>>

vars == <<data, df, signals, metrics, analysis_results, files, returned, clock, call>>

\* Python's None, and the value of a result variable before its call returns.
None == [none |-> TRUE]
Pending == [pending |-> TRUE]

\* CryptoAnalyzer.__init__: an empty cache; nothing written or returned yet
InitAnalyzerVars ==
    /\ analysis_results = <<>>
    /\ files = {}
    /\ returned = Pending
    /\ clock = 0
    /\ call = Pending

-----------------------------------------------------------------------------
(* float cells *)

NaN == <<0, 0>>
Inf == <<1, 0>>
NegInf == <<-1, 0>>

Abs(i) == IF i < 0 THEN -i ELSE i
Sgn(i) == IF i < 0 THEN -1 ELSE IF i > 0 THEN 1 ELSE 0

RECURSIVE GCD(_, _)
GCD(a, b) == IF b = 0 THEN a ELSE GCD(b, a % b)

\* n/d in lowest terms with a positive denominator (d # 0)
Frac(n, d) ==
    LET g == GCD(Abs(n), Abs(d))
    IN  <<Sgn(d) * (n \div g), Abs(d) \div g>>

R(i) == <<i, 1>>

IsNaN(x) == x = NaN
IsFinite(x) == x[2] > 0
pd_isna(x) == IsNaN(x)
pd_notna(x) == ~IsNaN(x)

\* x < y on two finite cells, by integer parts and then the reciprocals of
\* the fractional parts (no product of the two denominators is formed)
RECURSIVE FinLt(_, _)
FinLt(x, y) ==
    LET qx == x[1] \div x[2]
        qy == y[1] \div y[2]
        rx == x[1] % x[2]
        ry == y[1] % y[2]
    IN  IF qx # qy THEN qx < qy
        ELSE IF ry = 0 THEN FALSE
        ELSE IF rx = 0 THEN TRUE
        ELSE FinLt(<<y[2], ry>>, <<x[2], rx>>)

\* float comparison: every comparison with NaN is False
FLt(x, y) ==
    IF IsNaN(x) \/ IsNaN(y) THEN FALSE
    ELSE IF x[2] = 0 \/ y[2] = 0
         THEN (IF x[2] = 0 THEN 2 * x[1] ELSE 0) < (IF y[2] = 0 THEN 2 * y[1] ELSE 0)
    ELSE FinLt(x, y)
FGt(x, y) == FLt(y, x)
FLe(x, y) == ~IsNaN(x) /\ ~IsNaN(y) /\ ~FLt(y, x)
FGe(x, y) == FLe(y, x)

FNeg(x) == <<-x[1], x[2]>>

\* float addition: NaN propagates, inf + -inf is NaN
FAdd(x, y) ==
    IF IsNaN(x) \/ IsNaN(y) THEN NaN
    ELSE IF x[2] = 0 /\ y[2] = 0 THEN (IF x = y THEN x ELSE NaN)
    ELSE IF x[2] = 0 THEN x
    ELSE IF y[2] = 0 THEN y
    ELSE IF x[2] = y[2]
         THEN (IF x[2] = 1 THEN <<x[1] + y[1], 1>> ELSE Frac(x[1] + y[1], x[2]))
    ELSE LET g == GCD(x[2], y[2])
         IN  Frac(x[1] * (y[2] \div g) + y[1] * (x[2] \div g), x[2] * (y[2] \div g))
FSub(x, y) == FAdd(x, FNeg(y))

\* float multiplication: NaN propagates, 0 * inf is NaN
FMul(x, y) ==
    IF IsNaN(x) \/ IsNaN(y) THEN NaN
    ELSE IF x[2] = 0 \/ y[2] = 0
         THEN (IF x[1] = 0 \/ y[1] = 0 THEN NaN ELSE <<Sgn(x[1]) * Sgn(y[1]), 0>>)
    ELSE IF x[2] = 1 /\ y[2] = 1 THEN <<x[1] * y[1], 1>>
    ELSE LET g1 == GCD(Abs(x[1]), y[2])
             g2 == GCD(Abs(y[1]), x[2])
         IN  <<(x[1] \div g1) * (y[1] \div g2), (x[2] \div g2) * (y[2] \div g1)>>

\* float division as numpy does it on arrays: x/0 is +-inf, 0/0 is NaN,
\* a finite value over an infinity is 0, inf/inf is NaN
FDiv(x, y) ==
    IF IsNaN(x) \/ IsNaN(y) THEN NaN
    ELSE IF y[2] = 0 THEN (IF x[2] = 0 THEN NaN ELSE R(0))
    ELSE IF x[2] = 0 THEN (IF y[1] < 0 THEN FNeg(x) ELSE x)
    ELSE IF y[1] = 0 THEN (IF x[1] = 0 THEN NaN ELSE <<Sgn(x[1]), 0>>)
    ELSE FMul(x, Frac(y[2], y[1]))

RECURSIVE ISqrtIn(_, _, _)
\* the integer square root of n, searched in lo..hi
ISqrtIn(n, lo, hi) ==
    IF lo = hi THEN lo
    ELSE IF ((lo + hi + 1) \div 2) * ((lo + hi + 1) \div 2) <= n
         THEN ISqrtIn(n, (lo + hi + 1) \div 2, hi)
         ELSE ISqrtIn(n, lo, ((lo + hi + 1) \div 2) - 1)
ISqrt(n) == ISqrtIn(n, 0, 46340)
IsSquare(n) == ISqrt(n) * ISqrt(n) = n

\* A cell whose value is irrational is the triple <<a, b, c>> standing for
\* a + b * sqrt(c), with a, b, c rational cells, b # 0 and c no square.
IsSurd(x) == Len(x) = 3

\* np.sqrt(x): NaN below zero
FSqrt(x) ==
    IF IsNaN(x) \/ x[1] < 0 THEN NaN
    ELSE IF x[2] = 0 THEN x
    ELSE IF IsSquare(x[1]) /\ IsSquare(x[2]) THEN <<ISqrt(x[1]), ISqrt(x[2])>>
    ELSE <<R(0), R(1), x>>

\* a + k * r for rational cells a, k and a square root r
FAddScaled(a, k, r) ==
    IF ~IsSurd(r) THEN FAdd(a, FMul(k, r))
    ELSE IF IsNaN(a) \/ IsNaN(k) THEN NaN
    ELSE IF a[2] = 0 THEN a
    ELSE IF k[1] = 0 THEN a
    ELSE <<a, FMul(k, r[2]), r[3]>>

\* x / r for a rational cell x and a square root r
FDivBy(x, r) ==
    IF ~IsSurd(r) THEN FDiv(x, r)
    ELSE IF IsNaN(x) THEN NaN
    ELSE IF x[2] = 0 THEN <<x[1] * Sgn(r[2][1]), 0>>
    ELSE IF x[1] = 0 THEN R(0)
    ELSE <<R(0), FDiv(x, FMul(r[2], r[3])), r[3]>>

-----------------------------------------------------------------------------
(* pandas frames: a record of columns, each a sequence of cells *)

\* number of rows of a frame (every column has the length of the index)
NRows(frame) == IF DOMAIN frame = {} THEN 0 ELSE Len(frame[CHOOSE c \in DOMAIN frame : TRUE])

\* `data is None or data.empty`
is_none_or_empty(frame) == frame = None \/ NRows(frame) = 0

RECURSIVE SumCells(_, _, _)
\* sum of cells lo..hi of a sequence (summed by halves)
SumCells(xs, lo, hi) ==
    IF hi < lo THEN R(0)
    ELSE IF hi = lo THEN xs[lo]
    ELSE FAdd(SumCells(xs, lo, (lo + hi) \div 2), SumCells(xs, ((lo + hi) \div 2) + 1, hi))

RECURSIVE ProdCells(_, _, _)
\* product of the non-NaN cells among lo..hi of a sequence
ProdCells(xs, lo, hi) ==
    IF hi < lo THEN R(1)
    ELSE IF hi = lo THEN (IF IsNaN(xs[lo]) THEN R(1) ELSE xs[lo])
    ELSE FMul(ProdCells(xs, lo, (lo + hi) \div 2), ProdCells(xs, ((lo + hi) \div 2) + 1, hi))

-----------------------------------------------------------------------------
(* generate_signals, analyzer.py:70-109 *)

RSI_OVERSOLD == 30
RSI_OVERBOUGHT == 70
BUY == 1
SELL == -1
Half == <<1, 2>>

signal_columns == <<"MACD_Signal", "RSI_Signal", "MA_Signal", "BB_Signal">>

\* signals.loc[mask, col] = value: a column that does not exist yet is created
\* holding NaN on every row, then the rows where the mask is True are set
loc_set(sig, mask, col, value) ==
    LET n == Len(mask)
        old == IF col \in DOMAIN sig THEN sig[col] ELSE [i \in 1..n |-> NaN]
    IN  [c \in (DOMAIN sig) \cup {col} |->
            IF c = col THEN [i \in 1..n |-> IF mask[i] THEN value ELSE old[i]]
            ELSE sig[c]]

\* mutant: an undefined cell compares as 0 (the columns were fillna(0)'d)
mask_gt_fillna(xs, ys) ==
    [i \in 1..Len(xs) |-> FGt(IF IsNaN(xs[i]) THEN R(0) ELSE xs[i],
                              IF IsNaN(ys[i]) THEN R(0) ELSE ys[i])]

\* element-wise comparison of two columns (a boolean mask)
mask_gt(xs, ys) == [i \in 1..Len(xs) |-> FGt(xs[i], ys[i])]
mask_lt(xs, ys) == [i \in 1..Len(xs) |-> FLt(xs[i], ys[i])]
scalar(xs, i) == [k \in 1..Len(xs) |-> R(i)]

\* mutant: equal operands vote 0 instead of leaving the cell undefined
macd_rule_tie_zero(sig, d) ==
    loc_set(loc_set(loc_set(sig, [i \in 1..Len(d.MACD) |-> pd_notna(d.MACD[i]) /\ d.MACD[i] = d.MACD_Signal[i]],
                            "MACD_Signal", R(0)),
                    mask_gt(d.MACD, d.MACD_Signal), "MACD_Signal", R(BUY)),
            mask_lt(d.MACD, d.MACD_Signal), "MACD_Signal", R(SELL))

\* lines 81-83
macd_rule(sig, d) ==
    loc_set(loc_set(sig, mask_gt(d.MACD, d.MACD_Signal), "MACD_Signal", R(BUY)),
            mask_lt(d.MACD, d.MACD_Signal), "MACD_Signal", R(SELL))

\* mutant: the thresholds are inclusive
rsi_rule_inclusive(sig, d) ==
    loc_set(loc_set(sig, [i \in 1..Len(d.RSI) |-> FLe(d.RSI[i], R(RSI_OVERSOLD))], "RSI_Signal", R(BUY)),
            [i \in 1..Len(d.RSI) |-> FGe(d.RSI[i], R(RSI_OVERBOUGHT))], "RSI_Signal", R(SELL))

\* lines 85-87
rsi_rule(sig, d) ==
    loc_set(loc_set(sig, mask_lt(d.RSI, scalar(d.RSI, RSI_OVERSOLD)), "RSI_Signal", R(BUY)),
            mask_gt(d.RSI, scalar(d.RSI, RSI_OVERBOUGHT)), "RSI_Signal", R(SELL))

\* lines 89-91
ma_rule(sig, d) ==
    loc_set(loc_set(sig, mask_gt(d.SMA_20, d.SMA_50), "MA_Signal", R(BUY)),
            mask_lt(d.SMA_20, d.SMA_50), "MA_Signal", R(SELL))

\* lines 93-95
bb_rule(sig, d) ==
    loc_set(loc_set(sig, mask_lt(d.Close, d.BB_Lower), "BB_Signal", R(BUY)),
            mask_gt(d.Close, d.BB_Upper), "BB_Signal", R(SELL))

\* mutant: an undefined rule counts as a vote of 0
row_mean_nan_as_zero(sig, cols, i) ==
    FDiv(SumCells([k \in 1..Len(cols) |-> IF pd_notna(sig[cols[k]][i]) THEN sig[cols[k]][i] ELSE R(0)],
                  1, Len(cols)),
         R(Len(cols)))

\* signals[cols].mean(axis=1) on one row: NaN cells are skipped, and the mean
\* of no cells is NaN
row_mean(sig, cols, i) ==
    LET present == {k \in 1..Len(cols) : pd_notna(sig[cols[k]][i])}
        vals == [k \in 1..Len(cols) |-> IF k \in present THEN sig[cols[k]][i] ELSE R(0)]
    IN  IF present = {} THEN NaN
        ELSE FDiv(SumCells(vals, 1, Len(cols)), R(Cardinality(present)))

\* mutant: the neutral band is open (a score of exactly +-0.5 decides)
final_decision_inclusive(c) ==
    IF FGe(c, Half) THEN BUY ELSE IF FLe(c, FNeg(Half)) THEN SELL ELSE 0

\* np.where(c > 0.5, 1, np.where(c < -0.5, -1, 0)) on one cell
final_decision(c) ==
    IF FGt(c, Half) THEN BUY ELSE IF FLt(c, FNeg(Half)) THEN SELL ELSE 0

\* mutant: the rows without a defined score are dropped from the two columns
combine_dropna(sig) ==
    LET n == Len(sig.Signal)
        combined == [i \in 1..n |-> row_mean(sig, signal_columns, i)]
        kept == SelectSeq(combined, LAMBDA c : pd_notna(c))
    IN  [c \in (DOMAIN sig) \cup {"Combined_Signal", "Final_Signal"} |->
            IF c = "Combined_Signal" THEN kept
            ELSE IF c = "Final_Signal" THEN [i \in 1..Len(kept) |-> final_decision(kept[i])]
            ELSE sig[c]]

\* lines 97-107
combine(sig) ==
    LET n == Len(sig.Signal)
        available_signals == SelectSeq(signal_columns, LAMBDA c : c \in DOMAIN sig)
    IN  IF Len(available_signals) > 0
        THEN LET combined == [i \in 1..n |-> row_mean(sig, available_signals, i)]
             IN  [c \in (DOMAIN sig) \cup {"Combined_Signal", "Final_Signal"} |->
                    IF c = "Combined_Signal" THEN combined
                    ELSE IF c = "Final_Signal" THEN [i \in 1..n |-> final_decision(combined[i])]
                    ELSE sig[c]]
        ELSE sig

generate_signals(d) ==
    IF is_none_or_empty(d) THEN None
    ELSE LET s0 == [Signal |-> [i \in 1..NRows(d) |-> 0]]
         IN  combine(bb_rule(ma_rule(rsi_rule(macd_rule(s0, d), d), d), d))

-----------------------------------------------------------------------------
(* calculate_technical_indicators, analyzer.py:27-68 *)

SMA_SHORT == 20
SMA_LONG == 50
RSI_WINDOW == 14
BB_WINDOW == 20
VOLUME_WINDOW == 20

\* mutant: min_periods = 1, the mean of however many rows the window holds
rolling_mean_min1(xs, w) ==
    [i \in 1..Len(xs) |->
        FDiv(SumCells(xs, IF i > w THEN i - w + 1 ELSE 1, i), R(IF i > w THEN w ELSE i))]

\* xs.rolling(window=w).mean(): min_periods is the window, so a row with fewer
\* than w observations (or a NaN among them) is NaN
rolling_mean(xs, w) ==
    [i \in 1..Len(xs) |->
        IF i < w \/ \E k \in (i - w + 1)..i : IsNaN(xs[k]) THEN NaN
        ELSE FDiv(SumCells(xs, i - w + 1, i), R(w))]

\* xs.rolling(window=w).std(): sample standard deviation (ddof = 1) of the
\* window, (sum(x^2) - sum(x)^2 / w) / (w - 1) under the root
rolling_std(xs, w) ==
    [i \in 1..Len(xs) |->
        IF i < w \/ \E k \in (i - w + 1)..i : IsNaN(xs[k]) THEN NaN
        ELSE LET total == SumCells(xs, i - w + 1, i)
                 squares == SumCells([k \in 1..i |-> FMul(xs[k], xs[k])], i - w + 1, i)
             IN  FSqrt(FDiv(FSub(squares, FDiv(FMul(total, total), R(w))), R(w - 1)))]

\* The weights of an exponentially weighted mean, ((span-1)/(span+1))^k, leave
\* the 32-bit range after a few rows.  A finite cell that is not evaluated is
\* kept as the term of the operation and its operands.
Term(op, a, b) == <<"term", op, a, b>>
IsTerm(x) == Len(x) = 4

\* mutant: the mean is seeded by the second row, the first is undefined
ewm_mean_from_second(xs, span) ==
    [i \in 1..Len(xs) |-> IF i = 1 THEN NaN ELSE Term("ewm", span, SubSeq(xs, 1, i))]

\* mutant: the mean on every row is taken over the whole column
ewm_mean_whole(xs, span) == [i \in 1..Len(xs) |-> Term("ewm", span, xs)]

\* xs.ewm(span=span).mean() (adjust=True, no NaN in xs): on row i the mean of
\* xs[1..i] with weight ((span-1)/(span+1))^(i-k) on row k.  Evaluated on the
\* first two rows and wherever the rows so far are all equal, a term elsewhere.
ewm_mean(xs, span) ==
    [i \in 1..Len(xs) |->
        LET decay == Frac(span - 1, span + 1)
        IN  IF \A k \in 1..i : xs[k] = xs[1] /\ ~IsTerm(xs[1]) THEN xs[1]
            ELSE IF i = 2 /\ ~IsTerm(xs[1]) /\ ~IsTerm(xs[2])
                 THEN FDiv(FAdd(xs[2], FMul(decay, xs[1])), FAdd(R(1), decay))
            ELSE Term("ewm", span, SubSeq(xs, 1, i))]

\* xs.diff(): the first row has no predecessor
diff(xs) == [i \in 1..Len(xs) |-> IF i = 1 THEN NaN ELSE FSub(xs[i], xs[i - 1])]

\* delta.where(delta > 0, 0): rows failing the condition (NaN included) become 0
where_gt0(xs) == [i \in 1..Len(xs) |-> IF FGt(xs[i], R(0)) THEN xs[i] ELSE R(0)]
where_lt0(xs) == [i \in 1..Len(xs) |-> IF FLt(xs[i], R(0)) THEN xs[i] ELSE R(0)]

\* element-wise arithmetic on columns
col_neg(xs) == [i \in 1..Len(xs) |-> FNeg(xs[i])]
col_sub(xs, ys) ==
    [i \in 1..Len(xs) |->
        IF IsTerm(xs[i]) \/ IsTerm(ys[i]) THEN Term("sub", xs[i], ys[i]) ELSE FSub(xs[i], ys[i])]
\* mutant: a zero divisor gives 0
col_div_or_zero(xs, ys) ==
    [i \in 1..Len(xs) |-> IF ys[i] = R(0) THEN R(0) ELSE FDiv(xs[i], ys[i])]

col_div(xs, ys) == [i \in 1..Len(xs) |-> FDiv(xs[i], ys[i])]

\* line 52: 100 - (100 / (1 + rs))
rsi_of_rs(rs) == [i \in 1..Len(rs) |-> FSub(R(100), FDiv(R(100), FAdd(R(1), rs[i])))]

\* lines 48-52: df["RSI"]
rsi_column(close) ==
    LET delta == diff(close)
        gain == rolling_mean(where_gt0(delta), RSI_WINDOW)
        loss == rolling_mean(col_neg(where_lt0(delta)), RSI_WINDOW)
    IN  rsi_of_rs(col_div(gain, loss))

\* mutant: the change is taken relative to the current row
pct_change_of_current(xs) ==
    [i \in 1..Len(xs) |-> IF i = 1 THEN NaN ELSE FDiv(FSub(xs[i], xs[i - 1]), xs[i])]

\* xs.pct_change(): xs[t] / xs[t-1] - 1, NaN on the first row
pct_change(xs) ==
    [i \in 1..Len(xs) |-> IF i = 1 THEN NaN ELSE FSub(FDiv(xs[i], xs[i - 1]), R(1))]

\* xs.cumprod() (skipna): a NaN cell is NaN in the result and is left out of
\* the running product
cumprod(xs) == [i \in 1..Len(xs) |-> IF IsNaN(xs[i]) THEN NaN ELSE ProdCells(xs, 1, i)]

EMA_FAST == 12
EMA_SLOW == 26
MACD_SIGNAL == 9

\* df["Close"] / df["Volume"] on a frame without that column
KeyError(col) == [keyerror |-> col]

calculate_technical_indicators(d) ==
    IF is_none_or_empty(d) THEN None
    ELSE IF "Close" \notin DOMAIN d THEN KeyError("Close")
    ELSE IF "Volume" \notin DOMAIN d THEN KeyError("Volume")
    ELSE LET close == d.Close
             n == Len(close)
             ema12 == ewm_mean(close, EMA_FAST)
             ema26 == ewm_mean(close, EMA_SLOW)
             macd == col_sub(ema12, ema26)
             macdsig == ewm_mean(macd, MACD_SIGNAL)
             middle == rolling_mean(close, BB_WINDOW)
             bb_std == rolling_std(close, BB_WINDOW)
             volsma == rolling_mean(d.Volume, VOLUME_WINDOW)
             daily == pct_change(close)
         IN  [SMA_20 |-> rolling_mean(close, SMA_SHORT),
              SMA_50 |-> rolling_mean(close, SMA_LONG),
              EMA_12 |-> ema12,
              EMA_26 |-> ema26,
              MACD |-> macd,
              MACD_Signal |-> macdsig,
              MACD_Histogram |-> col_sub(macd, macdsig),
              RSI |-> rsi_column(close),
              BB_Middle |-> middle,
              BB_Upper |-> [i \in 1..n |-> FAddScaled(middle[i], R(2), bb_std[i])],
              BB_Lower |-> [i \in 1..n |-> FAddScaled(middle[i], R(-2), bb_std[i])],
              Volume_SMA |-> volsma,
              Volume_Ratio |-> col_div(d.Volume, volsma),
              Daily_Return |-> daily,
              Cumulative_Return |-> cumprod([i \in 1..n |-> FAdd(R(1), daily[i])])]
             @@ d

-----------------------------------------------------------------------------
(* The indicator engine on its own: calculate_technical_indicators applied *)
(* to an OHLCV series of 0..MaxRows rows.  Close follows a period-3        *)
(* pattern on a flat or rising line (constant, linear, saw-tooth, ...),    *)
(* possibly after an opening fall, or rises linearly from 100; Volume      *)
(* follows the same pattern (all zero for the zero pattern, after the      *)
(* first row when the series opens with a fall).                           *)

MaxRows == 60

Patterns == {<<0, 0, 0>>, <<0, 0, 1>>, <<0, 1, 2>>, <<2, 0, 2>>}

\* dip: the amount by which the first Close stands above the line (so that the
\* series opens with a fall)
Shapes ==
    {[base |-> 1, slope |-> s, pat |-> p, dip |-> 0] : s \in {0, 1}, p \in Patterns}
        \cup {[base |-> 1, slope |-> s, pat |-> <<0, 0, 0>>, dip |-> 3] : s \in {0, 1}}
        \cup {[base |-> 100, slope |-> 1, pat |-> <<0, 0, 0>>, dip |-> 0]}

PatAt(shape, i) == shape.pat[((i - 1) % 3) + 1]

OhlcvSeries(shape, n) ==
    LET close == [i \in 1..n |-> shape.base + shape.slope * (i - 1) + PatAt(shape, i)
                                    + (IF i = 1 THEN shape.dip ELSE 0)]
    IN  [Open |-> [i \in 1..n |-> R(IF i = 1 THEN close[1] ELSE close[i - 1])],
         High |-> [i \in 1..n |-> R(close[i] + 1)],
         Low |-> [i \in 1..n |-> R(IF i = 1 THEN close[1] ELSE
                                   IF close[i - 1] < close[i] THEN close[i - 1] ELSE close[i])],
         Close |-> [i \in 1..n |-> R(close[i])],
         Volume |-> [i \in 1..n |-> R(PatAt(shape, i + 1) + (IF i = 1 THEN shape.dip ELSE 0))]]

IndicatorInputs == {None} \cup {OhlcvSeries(sh, n) : sh \in Shapes, n \in 0..MaxRows}

InitIndicators ==
    /\ data \in IndicatorInputs
    /\ df = Pending
    /\ signals = Pending
    /\ metrics = Pending
    /\ InitAnalyzerVars

\* data_with_indicators = self.calculate_technical_indicators(data)
CalcIndicators ==
    /\ df = Pending
    /\ df' = calculate_technical_indicators(data)
    /\ UNCHANGED <<data, signals, metrics>>
    /\ UNCHANGED analyzer_vars

NextIndicators == CalcIndicators

SpecIndicators == InitIndicators /\ [][NextIndicators]_vars

-----------------------------------------------------------------------------
(* calculate_risk_metrics and calculate_max_drawdown, analyzer.py:111-139 *)

TRADING_DAYS == 252
VAR_PERCENTILE == 5

\* an exception leaving a call
Raised == [raised |-> TRUE]

\* xs.dropna()
dropna(xs) == SelectSeq(xs, LAMBDA x : pd_notna(x))

\* xs.mean() (skipna); the mean of no cells is NaN
series_mean(xs) ==
    LET ys == dropna(xs)
    IN  IF Len(ys) = 0 THEN NaN ELSE FDiv(SumCells(ys, 1, Len(ys)), R(Len(ys)))

\* the variance behind xs.std() (ddof=1): NaN with fewer than two cells
series_var(xs) ==
    LET ys == dropna(xs)
        m == series_mean(ys)
        sq == [i \in 1..Len(ys) |-> FMul(FSub(ys[i], m), FSub(ys[i], m))]
    IN  IF Len(ys) < 2 THEN NaN ELSE FDiv(SumCells(sq, 1, Len(ys)), R(Len(ys) - 1))

RECURSIVE MaxCells(_, _, _)
\* the largest of cells lo..hi (lo <= hi)
MaxCells(xs, lo, hi) ==
    IF hi = lo THEN xs[lo]
    ELSE LET a == MaxCells(xs, lo, (lo + hi) \div 2)
             b == MaxCells(xs, ((lo + hi) \div 2) + 1, hi)
         IN  IF FLt(a, b) THEN b ELSE a

RECURSIVE MinCells(_, _, _)
\* the smallest of cells lo..hi (lo <= hi)
MinCells(xs, lo, hi) ==
    IF hi = lo THEN xs[lo]
    ELSE LET a == MinCells(xs, lo, (lo + hi) \div 2)
             b == MinCells(xs, ((lo + hi) \div 2) + 1, hi)
         IN  IF FLt(b, a) THEN b ELSE a

\* mutant: the peak is the maximum of the whole series, not of the rows so far
expanding_max_whole(xs) == [i \in 1..Len(xs) |-> MaxCells(xs, 1, Len(xs))]

\* prices.expanding(min_periods=1).max()
expanding_max(xs) == [i \in 1..Len(xs) |-> MaxCells(xs, 1, i)]

\* lines 133-139
calculate_max_drawdown(prices) ==
    LET peak == expanding_max(prices)
        drawdown == [i \in 1..Len(prices) |-> FDiv(FSub(prices[i], peak[i]), peak[i])]
    IN  MinCells(drawdown, 1, Len(prices))

\* the k-th smallest cell of xs, k counted from 0 (the cell at index k of the
\* sorted array)
order_stat(xs, k) ==
    CHOOSE v \in {xs[i] : i \in 1..Len(xs)} :
        /\ Cardinality({i \in 1..Len(xs) : FLt(xs[i], v)}) <= k
        /\ k < Cardinality({i \in 1..Len(xs) : FLe(xs[i], v)})

\* np.percentile(xs, q), method "linear": the virtual index (n-1)*q/100 is
\* split into its floor j and fraction g, and the result interpolates between
\* the sorted cells j and j+1.  (An empty array is the caller's case.)
percentile(xs, q) ==
    IF Len(xs) = 0 THEN NaN
    ELSE LET n == Len(xs)
             j == ((n - 1) * q) \div 100
             g == Frac(((n - 1) * q) % 100, 100)
             below == order_stat(xs, j)
             above == order_stat(xs, IF j + 1 > n - 1 THEN n - 1 ELSE j + 1)
         IN  FAdd(below, FMul(FSub(above, below), g))

\* mutant: the tail is taken on the wrong side of the threshold
tail_mean_above(returns, threshold) ==
    series_mean(SelectSeq(returns, LAMBDA x : FGe(x, threshold)))

\* returns[returns <= threshold].mean()
tail_mean(returns, threshold) ==
    series_mean(SelectSeq(returns, LAMBDA x : FLe(x, threshold)))

\* lines 118-131.  `empty` is what np.percentile makes of an empty array:
\* "nan" (a NaN result) or "raise" (an IndexError, which leaves the call).
calculate_risk_metrics(d, empty) ==
    IF is_none_or_empty(d) THEN None
    ELSE LET returns == dropna(pct_change(d.Close))
             variance == series_var(returns)
             volatility == FSqrt(FMul(variance, R(TRADING_DAYS)))
             var95 == percentile(returns, VAR_PERCENTILE)
         IN  IF Len(returns) = 0 /\ empty = "raise" THEN Raised
             ELSE [Volatility |-> volatility,
                   Sharpe_Ratio |-> FDivBy(FMul(series_mean(returns), R(TRADING_DAYS)), volatility),
                   Max_Drawdown |-> calculate_max_drawdown(d.Close),
                   VaR_95 |-> var95,
                   CVaR_95 |-> tail_mean(returns, var95),
                   Total_Return |-> FSub(FDiv(d.Close[Len(d.Close)], d.Close[1]), R(1))]

-----------------------------------------------------------------------------
(* The risk engine on its own: calculate_risk_metrics applied to a series  *)
(* of 0..MaxRiskRows rows whose Close is periodic, a staircase, a fall     *)
(* followed by a flat line, or doubles from row to row.                    *)

MaxRiskRows == 42

RECURSIVE Pow2(_)
Pow2(k) == IF k = 0 THEN 1 ELSE 2 * Pow2(k - 1)

RiskShapes ==
    {[kind |-> "periodic", pat |-> p] : p \in Patterns}
        \cup {[kind |-> k, pat |-> <<0, 0, 0>>] : k \in {"stair", "fall", "double"}}

RiskClose(shape, i) ==
    CASE shape.kind = "periodic" -> 1 + shape.pat[((i - 1) % 3) + 1]
      [] shape.kind = "stair" -> 1 + ((i - 1) \div 20)
      [] shape.kind = "fall" -> IF i = 1 THEN 4 ELSE IF i < 30 THEN 1 ELSE 2
      [] shape.kind = "double" -> Pow2(i - 1)

RiskSeries(shape, n) ==
    [Open |-> [i \in 1..n |-> R(RiskClose(shape, i))],
     High |-> [i \in 1..n |-> R(RiskClose(shape, i))],
     Low |-> [i \in 1..n |-> R(RiskClose(shape, i))],
     Close |-> [i \in 1..n |-> R(RiskClose(shape, i))],
     Volume |-> [i \in 1..n |-> R(1)]]

RiskInputs ==
    {None} \cup
    {RiskSeries(sh, n) : <<sh, n>> \in
        {q \in RiskShapes \X (0..MaxRiskRows) : q[1].kind = "double" => q[2] <= 12}}

\* what np.percentile makes of an empty array: NaN, or an IndexError (the
\* outcome differs between numpy releases)
PercentileOfEmpty == {"nan", "raise"}

InitRisk ==
    /\ data \in RiskInputs
    /\ df = Pending
    /\ signals = Pending
    /\ metrics = Pending
    /\ InitAnalyzerVars

\* risk_metrics = self.calculate_risk_metrics(data_with_indicators)
CalcRisk ==
    /\ metrics = Pending
    /\ \E empty \in PercentileOfEmpty : metrics' = calculate_risk_metrics(data, empty)
    /\ UNCHANGED <<data, df, signals>>
    /\ UNCHANGED analyzer_vars

NextRisk == CalcRisk

SpecRisk == InitRisk /\ [][NextRisk]_vars

-----------------------------------------------------------------------------
(* The signal generator on its own: generate_signals applied to an         *)
(* enriched series.  One row (the probe) takes every combination of the    *)
(* cell values below; the other rows of the series are filler rows.  The   *)
(* two Bollinger bands are BB_Middle -+ 2*bb_std (lines 57-58), so they    *)
(* are undefined together and BB_Lower <= BB_Upper.                        *)

MaxSignalRows == 2

MacdCells == {NaN, R(0), R(1)}
RsiCells == {NaN, R(29), R(30), R(70), R(71)}
SmaCells == {NaN, R(1), R(2)}
CloseCells == {R(1), R(2), R(3), R(4)}
BandCells == {<<NaN, NaN>>, <<R(2), R(2)>>, <<R(2), R(3)>>}

EnrichedRow(close, macd, macdsig, rsi, sma20, sma50, band) ==
    [Close |-> close, MACD |-> macd, MACD_Signal |-> macdsig, RSI |-> rsi,
     SMA_20 |-> sma20, SMA_50 |-> sma50, BB_Lower |-> band[1], BB_Upper |-> band[2]]

ProbeRows ==
    {EnrichedRow(c, m, ms, r, s20, s50, b) :
        c \in CloseCells, m \in MacdCells, ms \in MacdCells, r \in RsiCells,
        s20 \in SmaCells, s50 \in SmaCells, b \in BandCells}

\* an early row (only MACD defined, and tied with its signal line, as on the
\* first row of every series) and a row on which all four rules say buy
FillerRows ==
    {EnrichedRow(R(2), R(0), R(0), NaN, NaN, NaN, <<NaN, NaN>>),
     EnrichedRow(R(1), R(1), R(0), R(29), R(2), R(1), <<R(2), R(3)>>)}

EnrichedColumns ==
    {"Close", "MACD", "MACD_Signal", "RSI", "SMA_20", "SMA_50", "BB_Lower", "BB_Upper"}

\* the frame whose rows are the given records
FrameOfRows(rows) == [c \in EnrichedColumns |-> [i \in 1..Len(rows) |-> rows[i][c]]]

SignalInputs ==
    {None, FrameOfRows(<<>>)} \cup
    {FrameOfRows([i \in 1..n |-> IF i = p THEN probe ELSE fill[i]]) :
        <<n, p, probe, fill>> \in
            {q \in (1..MaxSignalRows) \X (1..MaxSignalRows) \X ProbeRows
                    \X [1..MaxSignalRows -> FillerRows] :
                /\ q[2] <= q[1]
                /\ \A k \in 1..MaxSignalRows : (k > q[1] \/ k = q[2]) =>
                       q[4][k] = EnrichedRow(R(2), R(0), R(0), NaN, NaN, NaN, <<NaN, NaN>>)}}

InitSignals ==
    /\ data = None
    /\ df \in SignalInputs
    /\ signals = Pending
    /\ metrics = Pending
    /\ InitAnalyzerVars

\* signals = self.generate_signals(data_with_indicators)
GenerateSignals ==
    /\ signals = Pending
    /\ signals' = generate_signals(df)
    /\ UNCHANGED <<data, df, metrics>>
    /\ UNCHANGED analyzer_vars

NextSignals == GenerateSignals

SpecSignals == InitSignals /\ [][NextSignals]_vars

-----------------------------------------------------------------------------
(* Objects.  A frame is a mutable object: the heap is the sequence of the   *)
(* frames allocated so far and a reference is an index into it (0 is None). *)

NoneRef == 0
deref(heap, ref) == IF ref = NoneRef THEN None ELSE heap[ref]

\* pd.DataFrame(...): a new object
alloc(heap, frame) == [heap |-> Append(heap, frame), ref |-> Len(heap) + 1]

\* mutant: no copy is taken, the name is bound to the object itself
frame_alias(heap, ref) == [heap |-> heap, ref |-> ref]

\* data.copy(), lines 35 and 77: a new object with the same cells
frame_copy(heap, ref) == alloc(heap, heap[ref])

\* a call ended by an exception
IsRaised(x) == x = Raised \/ "keyerror" \in DOMAIN x

\* calculate_technical_indicators as a call on objects: lines 37-66 assign the
\* columns to df, the copy of line 35; `out` is the value returned or raised
indicators_call(heap, ref) ==
    IF is_none_or_empty(deref(heap, ref)) THEN [heap |-> heap, ref |-> NoneRef, out |-> None]
    ELSE LET copied == frame_copy(heap, ref)
             enriched == calculate_technical_indicators(copied.heap[copied.ref])
         IN  IF IsRaised(enriched)
             THEN [heap |-> copied.heap, ref |-> NoneRef, out |-> enriched]
             ELSE [heap |-> [copied.heap EXCEPT ![copied.ref] = enriched],
                   ref |-> copied.ref, out |-> enriched]

\* generate_signals as a call on objects: line 77 copies the argument, line 78
\* makes the frame the rule columns are assigned to
signals_call(heap, ref) ==
    IF is_none_or_empty(deref(heap, ref)) THEN [heap |-> heap, ref |-> NoneRef, out |-> None]
    ELSE LET copied == frame_copy(heap, ref)
             made == alloc(copied.heap, generate_signals(copied.heap[copied.ref]))
         IN  [heap |-> made.heap, ref |-> made.ref, out |-> made.heap[made.ref]]

\* calculate_risk_metrics as a call on objects: it reads data["Close"] and
\* returns a new dict (or raises)
risk_call(heap, ref, empty) ==
    [heap |-> heap, ref |-> NoneRef, out |-> calculate_risk_metrics(deref(heap, ref), empty)]

-----------------------------------------------------------------------------
(* analyze_cryptocurrency and save_analysis, analyzer.py:141-215 *)

\* the value of a stored analysis (lines 163-170)
AnalysisResult(symbol, enriched, sig, risk, now) ==
    [symbol |-> symbol, data |-> enriched, signals |-> sig, risk_metrics |-> risk,
     last_price |-> enriched.Close[Len(enriched.Close)], analysis_date |-> now]

\* mutant: storing a result forgets the results of the other symbols
store_alone(cache, symbol, result) == (symbol :> result)

\* self.analysis_results[symbol] = result (line 172)
store(cache, symbol, result) == (symbol :> result) @@ cache

\* mutant: a failed fetch drops the entry of the symbol
could_not_fetch_evicting(cache, symbol, heap) ==
    [cache |-> [s \in DOMAIN cache \ {symbol} |-> cache[s]], heap |-> heap, returned |-> None,
     df |-> Pending, signals |-> Pending, metrics |-> Pending,
     dfref |-> NoneRef]

\* lines 149-151: the provider gave nothing; return None
could_not_fetch(cache, symbol, heap) ==
    [cache |-> cache, heap |-> heap, returned |-> None,
     df |-> Pending, signals |-> Pending, metrics |-> Pending,
     dfref |-> NoneRef]

\* lines 163-174, with the risk summary rk the call of line 160 gave, the
\* enriched series (object dfref) and the signal series: store and return the
\* result, unless that call raised
analyze_from_risk_metrics(cache, symbol, now, dfref, enriched, sig, rk) ==
    IF IsRaised(rk.out)
    THEN [cache |-> cache, heap |-> rk.heap, returned |-> rk.out,
          df |-> enriched, signals |-> sig, metrics |-> Pending,
          dfref |-> dfref]
    ELSE [cache |-> store(cache, symbol, AnalysisResult(symbol, enriched, sig, rk.out, now)),
          heap |-> rk.heap,
          returned |-> AnalysisResult(symbol, enriched, sig, rk.out, now),
          df |-> enriched, signals |-> sig, metrics |-> rk.out,
          dfref |-> dfref]

\* line 160, with the objects data_with_indicators (dfref) and signals (sigref)
analyze_from_signals(cache, symbol, now, dfref, sigref, rk) ==
    analyze_from_risk_metrics(cache, symbol, now, dfref,
                              deref(rk.heap, dfref), deref(rk.heap, sigref), rk)

\* line 157, with what the call of line 154 gave: a raise ends the call
analyze_from_indicators(cache, symbol, empty, now, ti, sg) ==
    IF IsRaised(ti.out)
    THEN [cache |-> cache, heap |-> ti.heap, returned |-> ti.out,
          df |-> Pending, signals |-> Pending, metrics |-> Pending,
          dfref |-> NoneRef]
    ELSE analyze_from_signals(cache, symbol, now, ti.ref, sg.ref,
                              risk_call(sg.heap, ti.ref, empty))

\* lines 154-157, with what calculate_technical_indicators gave
analyze_fetched(cache, symbol, empty, now, ti) ==
    analyze_from_indicators(cache, symbol, empty, now, ti, signals_call(ti.heap, ti.ref))

\* analyze_cryptocurrency, on the object `ref` the provider returned.  In the
\* record it gives, df, signals and metrics are the locals data_with_indicators,
\* signals and risk_metrics (Pending when the call ends before assigning them)
\* and dfref is the object data_with_indicators is bound to.
analyze_cryptocurrency(cache, symbol, heap, ref, empty, now) ==
    IF is_none_or_empty(deref(heap, ref)) THEN could_not_fetch(cache, symbol, heap)
    ELSE analyze_fetched(cache, symbol, empty, now, indicators_call(heap, ref))

\* the bool save_analysis returns
Bool(b) == [bool |-> b]

\* symbol.lower()
Lower == [BTC |-> "btc", ETH |-> "eth"]

\* the files save_analysis writes for a stored result, in the order of lines
\* 192-208
FilesToWrite(symbol, result) ==
    <<Lower[symbol] \o "_analysis.csv">>
        \o (IF result.signals # None THEN <<Lower[symbol] \o "_signals.csv">> ELSE <<>>)
        \o (IF result.risk_metrics # None THEN <<Lower[symbol] \o "_metrics.txt">> ELSE <<>>)

\* save_analysis: `done` of the writes succeed before an OS error (all of them:
\* no error); `files` are the names of the files written by the call
save_analysis(cache, symbol, written, done) ==
    IF symbol \notin DOMAIN cache THEN [files |-> written, returned |-> None]
    ELSE LET result == cache[symbol]
             names == FilesToWrite(symbol, result)
             k == IF done > Len(names) THEN Len(names) ELSE done
         IN  [files |-> written \cup {names[i] : i \in 1..k},
              returned |-> Bool(k = Len(names))]

-----------------------------------------------------------------------------
(* One CryptoAnalyzer, called by a client: analyze_cryptocurrency and       *)
(* save_analysis on two symbols, with a provider (the scraper, or the stub  *)
(* test_setup.py installs) that returns nothing, an empty series, a short   *)
(* series or a series lacking a column; and the three engines called        *)
(* directly.  The clock counts the readings of datetime.now() (one per      *)
(* stored analysis), at most MaxClock.                                      *)

MaxClock == 2

Symbols == {"BTC", "ETH"}

Rising == [base |-> 1, slope |-> 1, pat |-> <<0, 0, 0>>, dip |-> 0]

DropColumn(frame, col) == [c \in DOMAIN frame \ {col} |-> frame[c]]

\* series with every column: empty, one row, two rows
FullSeries == {OhlcvSeries(Rising, n) : n \in 0..2}

ProviderSeries ==
    {None} \cup FullSeries
        \cup {DropColumn(OhlcvSeries(Rising, 2), c) : c \in {"Close", "Volume"}}

\* what a client can pass to generate_signals and calculate_risk_metrics
EnrichedSeries ==
    {None, OhlcvSeries(Rising, 0)}
        \cup {calculate_technical_indicators(d) : d \in FullSeries \ {OhlcvSeries(Rising, 0)}}

\* the heap holding the argument of a call, and the reference to it
HeapOf(arg) == IF arg = None THEN <<>> ELSE <<arg>>
RefOf(arg) == IF arg = None THEN NoneRef ELSE 1

InitAnalyzer ==
    /\ data = Pending
    /\ df = Pending
    /\ signals = Pending
    /\ metrics = Pending
    /\ InitAnalyzerVars

\* result = analyzer.analyze_cryptocurrency(symbol)
AnalyzeCryptocurrency ==
    /\ clock < MaxClock
    /\ \E symbol \in Symbols, fetched \in ProviderSeries, empty \in PercentileOfEmpty :
          \E r \in {analyze_cryptocurrency(analysis_results, symbol, HeapOf(fetched),
                                          RefOf(fetched), empty, clock + 1)} :
              /\ analysis_results' = r.cache
              /\ returned' = r.returned
              /\ data' = deref(r.heap, RefOf(fetched))
              /\ df' = r.df
              /\ signals' = r.signals
              /\ metrics' = r.metrics
              /\ call' = [op |-> "analyze_cryptocurrency", symbol |-> symbol,
                          given |-> fetched,
                          aliased |-> (r.dfref # NoneRef /\ r.dfref = RefOf(fetched))]
              /\ clock' = IF "analysis_date" \in DOMAIN r.returned THEN clock + 1 ELSE clock
    /\ UNCHANGED files

\* analyzer.save_analysis(symbol)
SaveAnalysis ==
    /\ \E symbol \in Symbols, done \in 0..3 :
          \E r \in {save_analysis(analysis_results, symbol, files, done)} :
              /\ returned' = r.returned
              /\ files' = r.files
              /\ call' = [op |-> "save_analysis", symbol |-> symbol,
                          given |-> None, aliased |-> FALSE]
    /\ UNCHANGED <<data, df, signals, metrics, analysis_results, clock>>

\* analyzer.calculate_technical_indicators(series)
CallIndicators ==
    /\ \E given \in ProviderSeries :
          \E r \in {indicators_call(HeapOf(given), RefOf(given))} :
              /\ returned' = r.out
              /\ df' = r.out
              /\ data' = deref(r.heap, RefOf(given))
              /\ call' = [op |-> "calculate_technical_indicators", symbol |-> "",
                          given |-> given,
                          aliased |-> (r.ref # NoneRef /\ r.ref = RefOf(given))]
    /\ signals' = Pending
    /\ metrics' = Pending
    /\ UNCHANGED <<analysis_results, files, clock>>

\* analyzer.generate_signals(series)
CallSignals ==
    /\ \E given \in EnrichedSeries :
          \E r \in {signals_call(HeapOf(given), RefOf(given))} :
              /\ returned' = r.out
              /\ signals' = r.out
              /\ data' = deref(r.heap, RefOf(given))
              /\ call' = [op |-> "generate_signals", symbol |-> "", given |-> given,
                          aliased |-> (r.ref # NoneRef /\ r.ref = RefOf(given))]
    /\ df' = Pending
    /\ metrics' = Pending
    /\ UNCHANGED <<analysis_results, files, clock>>

\* analyzer.calculate_risk_metrics(series)
CallRisk ==
    /\ \E given \in EnrichedSeries, empty \in PercentileOfEmpty :
          \E r \in {risk_call(HeapOf(given), RefOf(given), empty)} :
              /\ returned' = r.out
              /\ metrics' = r.out
              /\ data' = deref(r.heap, RefOf(given))
              /\ call' = [op |-> "calculate_risk_metrics", symbol |-> "", given |-> given,
                          aliased |-> FALSE]
    /\ df' = Pending
    /\ signals' = Pending
    /\ UNCHANGED <<analysis_results, files, clock>>

NextAnalyzer ==
    \/ AnalyzeCryptocurrency
    \/ SaveAnalysis
    \/ CallIndicators
    \/ CallSignals
    \/ CallRisk

SpecAnalyzer == InitAnalyzer /\ [][NextAnalyzer]_vars

-----------------------------------------------------------------------------
(* properties of the signal series *)

SignalsReturned == signals # Pending /\ signals # None
SignalRows == 1..NRows(df)

\* the rule columns of the signal series that hold a value on row i
DefinedRules(cols, i) == {c \in cols : signals[c][i] # NaN}

RECURSIVE RuleSum(_, _)
RuleSum(cols, i) ==
    IF cols = {} THEN 0
    ELSE LET c == CHOOSE x \in cols : TRUE
         IN  signals[c][i][1] + RuleSum(cols \ {c}, i)

\* the arithmetic mean of the defined rule values among cols on row i
RuleMean(cols, i) ==
    IF DefinedRules(cols, i) = {} THEN NaN
    ELSE Frac(RuleSum(DefinedRules(cols, i), i), Cardinality(DefinedRules(cols, i)))

AllRules == {"MACD_Signal", "RSI_Signal", "MA_Signal", "BB_Signal"}

\* C1: on every row the final decision is +1 when the combined score is above
\* 1/2, -1 when it is below -1/2 and 0 otherwise; four rules at +1 give score 1
\* and decision +1; as many +1 as -1 rules give decision 0.
C1_FinalDecision ==
    SignalsReturned =>
        \A i \in SignalRows :
            LET c == signals.Combined_Signal[i]
                f == signals.Final_Signal[i]
                plus == {r \in AllRules : signals[r][i] = R(1)}
                minus == {r \in AllRules : signals[r][i] = R(-1)}
            IN  /\ (c[2] > 0 /\ 2 * c[1] > c[2]) => f = 1
                /\ (c[2] > 0 /\ 2 * c[1] < -c[2]) => f = -1
                /\ (c[2] = 0 \/ (2 * c[1] <= c[2] /\ 2 * c[1] >= -c[2])) => f = 0
                /\ plus = AllRules => (c = R(1) /\ f = 1)
                /\ (plus # {} /\ Cardinality(plus) = Cardinality(minus)) => f = 0

C1_Witness ==
    /\ SignalsReturned
    /\ \E i \in SignalRows :
          /\ \A r \in AllRules : signals[r][i] = R(1)
          /\ signals.Combined_Signal[i] = R(1)
          /\ signals.Final_Signal[i] = 1
    /\ \E i \in SignalRows :
          /\ Cardinality({r \in AllRules : signals[r][i] = R(1)}) = 2
          /\ Cardinality({r \in AllRules : signals[r][i] = R(-1)}) = 2
          /\ signals.Final_Signal[i] = 0

\* C2: on every row the combined score is the mean of the rule values that are
\* defined on the row, and is undefined when none of the four is.
C2_CombinedIsMeanOfDefined ==
    SignalsReturned =>
        \A i \in SignalRows : signals.Combined_Signal[i] = RuleMean(AllRules, i)

C2_Witness ==
    /\ SignalsReturned
    /\ \E i \in SignalRows :
          /\ Cardinality(DefinedRules(AllRules, i)) = 3
          /\ signals.Combined_Signal[i] = <<1, 3>>
    /\ \E i \in SignalRows :
          /\ DefinedRules(AllRules, i) = {}
          /\ signals.Combined_Signal[i] = NaN

\* the value a symmetric rule takes on operands x and y, with `tie` on x = y
SymmetricRule(x, y, tie) ==
    IF FGt(x, y) THEN R(1) ELSE IF FLt(x, y) THEN R(-1) ELSE tie

\* C3 as claimed: where both operands are defined the MACD rule and the
\* moving-average rule are +1 on greater, -1 on less and 0 on equal operands.
C3_TieIsZero ==
    SignalsReturned =>
        \A i \in SignalRows :
            /\ (df.MACD[i] # NaN /\ df.MACD_Signal[i] # NaN) =>
                   signals.MACD_Signal[i] = SymmetricRule(df.MACD[i], df.MACD_Signal[i], R(0))
            /\ (df.SMA_20[i] # NaN /\ df.SMA_50[i] # NaN) =>
                   signals.MA_Signal[i] = SymmetricRule(df.SMA_20[i], df.SMA_50[i], R(0))

\* C3 amended: where both operands are defined the MACD rule and the
\* moving-average rule are +1 on greater, -1 on less and undefined on equal
\* operands.
C3_TieIsUndefined ==
    SignalsReturned =>
        \A i \in SignalRows :
            /\ (df.MACD[i] # NaN /\ df.MACD_Signal[i] # NaN) =>
                   signals.MACD_Signal[i] = SymmetricRule(df.MACD[i], df.MACD_Signal[i], NaN)
            /\ (df.SMA_20[i] # NaN /\ df.SMA_50[i] # NaN) =>
                   signals.MA_Signal[i] = SymmetricRule(df.SMA_20[i], df.SMA_50[i], NaN)

C3_Witness ==
    /\ SignalsReturned
    /\ \E i \in SignalRows :
          /\ df.MACD[i] # NaN /\ df.MACD[i] = df.MACD_Signal[i]
          /\ signals.MACD_Signal[i] = NaN
          /\ df.SMA_20[i] # NaN /\ df.SMA_20[i] = df.SMA_50[i]
          /\ signals.MA_Signal[i] = NaN

\* C4: the RSI rule is +1 below 30, -1 above 70 and undefined from 30 to 70;
\* the Bollinger rule is +1 below the lower band, -1 above the upper band and
\* undefined within the bands; a row on which such a rule is undefined has the
\* combined score of the remaining rules alone.
C4_AsymmetricRules ==
    SignalsReturned =>
        \A i \in SignalRows :
            LET rsi == df.RSI[i]
                close == df.Close[i]
                lo == df.BB_Lower[i]
                up == df.BB_Upper[i]
            IN  /\ FLt(rsi, R(30)) => signals.RSI_Signal[i] = R(1)
                /\ FGt(rsi, R(70)) => signals.RSI_Signal[i] = R(-1)
                /\ (FGe(rsi, R(30)) /\ FLe(rsi, R(70))) => signals.RSI_Signal[i] = NaN
                /\ FLt(close, lo) => signals.BB_Signal[i] = R(1)
                /\ FGt(close, up) => signals.BB_Signal[i] = R(-1)
                /\ (FGe(close, lo) /\ FLe(close, up)) => signals.BB_Signal[i] = NaN
                /\ signals.RSI_Signal[i] = NaN =>
                       signals.Combined_Signal[i] = RuleMean(AllRules \ {"RSI_Signal"}, i)
                /\ signals.BB_Signal[i] = NaN =>
                       signals.Combined_Signal[i] = RuleMean(AllRules \ {"BB_Signal"}, i)

C4_Witness ==
    /\ SignalsReturned
    /\ \E i \in SignalRows :
          /\ df.RSI[i] = R(30) /\ signals.RSI_Signal[i] = NaN
          /\ df.Close[i] = df.BB_Upper[i] /\ signals.BB_Signal[i] = NaN
          /\ signals.MACD_Signal[i] = R(1) /\ signals.MA_Signal[i] = R(-1)
          /\ signals.Combined_Signal[i] = R(0)

\* C5: a rule is undefined on every row on which one of the indicator values it
\* reads is undefined.
C5_UndefinedPropagates ==
    SignalsReturned =>
        \A i \in SignalRows :
            /\ (df.MACD[i] = NaN \/ df.MACD_Signal[i] = NaN) => signals.MACD_Signal[i] = NaN
            /\ df.RSI[i] = NaN => signals.RSI_Signal[i] = NaN
            /\ (df.SMA_20[i] = NaN \/ df.SMA_50[i] = NaN) => signals.MA_Signal[i] = NaN
            /\ (df.Close[i] = NaN \/ df.BB_Lower[i] = NaN \/ df.BB_Upper[i] = NaN) =>
                   signals.BB_Signal[i] = NaN

C5_Witness ==
    /\ SignalsReturned
    /\ \E i \in SignalRows :
          /\ df.SMA_20[i] = R(2) /\ df.SMA_50[i] = NaN /\ signals.MA_Signal[i] = NaN
          /\ df.RSI[i] = NaN /\ signals.RSI_Signal[i] = NaN
          /\ df.BB_Lower[i] = NaN /\ signals.BB_Signal[i] = NaN
          /\ signals.MACD_Signal[i] = R(1)
          /\ signals.Combined_Signal[i] = R(1)

\* row i of the enriched series, as a series of its own
RowAlone(i) == [c \in DOMAIN df |-> <<df[c][i]>>]

\* C20: for a non-empty enriched series the signal series has one record per
\* input row, record i being the one of input row i; every final decision is
\* -1, 0 or +1; where all four rules are undefined it is 0.
C20_OneDecisionPerRow ==
    (signals # Pending /\ ~is_none_or_empty(df)) =>
        /\ signals # None
        /\ "Final_Signal" \in DOMAIN signals
        /\ \A c \in DOMAIN signals : Len(signals[c]) = NRows(df)
        /\ \A i \in 1..NRows(df) :
              /\ signals.Final_Signal[i] \in {-1, 0, 1}
              /\ signals.Final_Signal[i] = generate_signals(RowAlone(i)).Final_Signal[1]
              /\ (\A r \in AllRules : signals[r][i] = NaN) => signals.Final_Signal[i] = 0

\* an early row with no rule defined, followed by a row on which all four buy
C20_Witness ==
    /\ signals # Pending
    /\ ~is_none_or_empty(df)
    /\ NRows(df) = 2
    /\ df.RSI[1] = NaN /\ df.SMA_20[1] = NaN /\ df.BB_Lower[1] = NaN
    /\ \A r \in AllRules : signals[r][1] = NaN
    /\ signals.Combined_Signal = <<NaN, R(1)>>
    /\ signals.Final_Signal = <<0, 1>>

-----------------------------------------------------------------------------
(* properties of the enriched series *)

IndicatorsReturned == data # None /\ df # Pending /\ df # None
DataRows == 1..NRows(data)

\* no Close in rows lo..hi is below the Close of the row before it
NoFall(lo, hi) == \A k \in lo..hi : k = 1 \/ ~FLt(data.Close[k], data.Close[k - 1])

\* C6 as claimed: on every row from the 14th on whose 14-row window holds no
\* fall of Close (zero average loss), RSI is defined and equals 100.
C6_RsiIs100OnZeroLoss ==
    IndicatorsReturned =>
        \A i \in DataRows :
            (i >= 14 /\ NoFall(i - 13, i)) => df.RSI[i] = R(100)

\* C7 as claimed: the first daily return is undefined, the first cumulative
\* return is 1, each later cumulative return is the product of (1 + daily
\* return) so far, and Close[0] * cumulative return[t] = Close[t] on every row.
C7_CumulativeStartsAtOne ==
    IndicatorsReturned =>
        /\ df.Daily_Return[1] = NaN
        /\ df.Cumulative_Return[1] = R(1)
        /\ \A t \in DataRows :
              /\ t >= 2 => df.Cumulative_Return[t] =
                               FMul(df.Cumulative_Return[t - 1], FAdd(R(1), df.Daily_Return[t]))
              /\ FMul(data.Close[1], df.Cumulative_Return[t]) = data.Close[t]

\* C7 amended: the first daily return and the first cumulative return are
\* undefined; each later cumulative return is the product of (1 + daily return)
\* over the rows after the first, and Close[0] * cumulative return[t] = Close[t]
\* on every row after the first.
C7_CumulativeReturn ==
    IndicatorsReturned =>
        /\ df.Daily_Return[1] = NaN
        /\ df.Cumulative_Return[1] = NaN
        /\ \A t \in DataRows :
              t >= 2 =>
                /\ df.Daily_Return[t] # NaN
                /\ df.Cumulative_Return[t] =
                       FMul(IF t = 2 THEN R(1) ELSE df.Cumulative_Return[t - 1],
                            FAdd(R(1), df.Daily_Return[t]))
                /\ FMul(data.Close[1], df.Cumulative_Return[t]) = data.Close[t]

C7_Witness ==
    /\ IndicatorsReturned
    /\ NRows(data) >= 3
    /\ df.Cumulative_Return[1] = NaN
    /\ data.Close[1] = R(4) /\ data.Close[2] = R(2) /\ data.Close[3] = R(3)
    /\ df.Daily_Return[2] = <<-1, 2>>
    /\ df.Daily_Return[3] = <<1, 2>>
    /\ df.Cumulative_Return[3] = <<3, 4>>

RECURSIVE CloseSum(_, _)
\* the sum of the (integer) Close values of rows lo..hi
CloseSum(lo, hi) ==
    IF hi < lo THEN 0
    ELSE IF hi = lo THEN data.Close[lo][1]
    ELSE CloseSum(lo, (lo + hi) \div 2) + CloseSum(((lo + hi) \div 2) + 1, hi)

\* SMA over w rows: undefined before row w, then the mean of the last w Closes
SmaHolds(col, w) ==
    \A i \in DataRows :
        /\ i < w => df[col][i] = NaN
        /\ i >= w => df[col][i] = Frac(CloseSum(i - w + 1, i), w)

\* C8: SMA(20) and SMA(50) are undefined on their first w-1 rows and from row w
\* on are the mean of the w most recent Closes; on a 60-row series SMA20 is
\* first defined on row 20 and SMA50 on row 50.
C8_SimpleMovingAverage ==
    IndicatorsReturned =>
        /\ SmaHolds("SMA_20", 20)
        /\ SmaHolds("SMA_50", 50)
        /\ NRows(data) = 60 =>
              /\ {i \in DataRows : df.SMA_20[i] # NaN} = 20..60
              /\ {i \in DataRows : df.SMA_50[i] # NaN} = 50..60

C8_Witness ==
    /\ IndicatorsReturned
    /\ NRows(data) = 60
    /\ data.Close[1] = R(100) /\ data.Close[60] = R(159)
    /\ df.SMA_20[19] = NaN /\ df.SMA_20[20] = <<219, 2>>
    /\ df.SMA_50[49] = NaN /\ df.SMA_50[50] = <<249, 2>>

\* the columns calculate_technical_indicators adds
DerivedColumns ==
    {"SMA_20", "SMA_50", "EMA_12", "EMA_26", "MACD", "MACD_Signal", "MACD_Histogram", "RSI",
     "BB_Middle", "BB_Upper", "BB_Lower", "Volume_SMA", "Volume_Ratio", "Daily_Return",
     "Cumulative_Return"}

\* the first t rows of a frame
Truncated(frame, t) == [c \in DOMAIN frame |-> SubSeq(frame[c], 1, t)]

\* the rows 1..t of every derived column are the ones computed from the rows
\* 1..t of the input alone
SameUpTo(t) ==
    LET alone == calculate_technical_indicators(Truncated(data, t))
    IN  \A c \in DerivedColumns : SubSeq(df[c], 1, t) = alone[c]

\* C16: no look-ahead.  Every series checked stays a series checked when its
\* last row is dropped, and dropping the last row, or the later half of the rows,
\* leaves every derived cell of the rows kept as it was: rows 0..t of the
\* enriched series are the same for all input series that agree on rows 0..t.
C16_NoLookAhead ==
    (IndicatorsReturned /\ NRows(data) >= 2) =>
        /\ \E sh \in Shapes : Truncated(data, NRows(data) - 1) = OhlcvSeries(sh, NRows(data) - 1)
        /\ SameUpTo(NRows(data) - 1)
        /\ SameUpTo(NRows(data) \div 2)

C16_Witness ==
    /\ IndicatorsReturned
    /\ NRows(data) = 60
    /\ data.Close[1] = R(100)
    /\ IsTerm(df.EMA_12[59]) /\ IsTerm(df.MACD_Signal[30])
    /\ df.SMA_50[59] = <<267, 2>>
    /\ ~IsNaN(df.RSI[30]) /\ ~IsNaN(df.BB_Upper[30])
    /\ SameUpTo(59) /\ SameUpTo(30)

RECURSIVE VolumeSum(_, _)
\* the sum of the (integer) Volume values of rows lo..hi
VolumeSum(lo, hi) ==
    IF hi < lo THEN 0
    ELSE IF hi = lo THEN data.Volume[lo][1]
    ELSE VolumeSum(lo, (lo + hi) \div 2) + VolumeSum(((lo + hi) \div 2) + 1, hi)

\* C17: the volume ratio is undefined on the rows where Volume SMA(20) is
\* undefined (the first 19) or zero (twenty rows of zero volume), never an
\* infinity or a number there, and is Volume / Volume SMA(20) on the others.
C17_VolumeRatio ==
    IndicatorsReturned =>
        \A i \in DataRows :
            /\ (df.Volume_SMA[i] = NaN \/ df.Volume_SMA[i] = R(0)) => df.Volume_Ratio[i] = NaN
            /\ i < 20 => df.Volume_Ratio[i] = NaN
            /\ (i >= 20 /\ VolumeSum(i - 19, i) = 0) =>
                  df.Volume_SMA[i] = R(0) /\ df.Volume_Ratio[i] = NaN
            /\ (i >= 20 /\ VolumeSum(i - 19, i) # 0) =>
                  df.Volume_Ratio[i] = Frac(20 * data.Volume[i][1], VolumeSum(i - 19, i))

C17_Witness ==
    /\ IndicatorsReturned
    /\ NRows(data) >= 21
    /\ data.Volume[1] = R(3)
    /\ df.Volume_SMA[19] = NaN /\ df.Volume_Ratio[19] = NaN
    /\ df.Volume_SMA[20] = <<3, 20>> /\ df.Volume_Ratio[20] = R(0)
    /\ df.Volume_SMA[21] = R(0) /\ df.Volume_Ratio[21] = NaN

RawColumns == {"Open", "High", "Low", "Close", "Volume"}
EwmColumns == {"EMA_12", "EMA_26", "MACD", "MACD_Signal", "MACD_Histogram"}

\* a 1-row series comes back as 1 row with its raw columns as given
OneRowPassedThrough ==
    /\ DOMAIN df = RawColumns \cup DerivedColumns
    /\ \A c \in DOMAIN df : Len(df[c]) = 1
    /\ \A c \in RawColumns : df[c] = data[c]

\* C18 as claimed: for a 1-row series the raw values are passed through and
\* every derived column is undefined on the row.
C18_OneRowAllUndefined ==
    (IndicatorsReturned /\ NRows(data) = 1) =>
        /\ OneRowPassedThrough
        /\ \A c \in DerivedColumns : df[c][1] = NaN

\* C18 amended: for a 1-row series the raw values are passed through, both EMAs
\* are the Close of the row, MACD, its signal line and its histogram are 0, and
\* every other derived column is undefined on the row.
C18_OneRowSeries ==
    (IndicatorsReturned /\ NRows(data) = 1) =>
        /\ OneRowPassedThrough
        /\ df.EMA_12[1] = data.Close[1] /\ df.EMA_26[1] = data.Close[1]
        /\ df.MACD[1] = R(0) /\ df.MACD_Signal[1] = R(0) /\ df.MACD_Histogram[1] = R(0)
        /\ \A c \in DerivedColumns \ EwmColumns : df[c][1] = NaN

C18_Witness ==
    /\ IndicatorsReturned
    /\ NRows(data) = 1
    /\ data.Close[1] = R(100)
    /\ df.Close = <<R(100)>>
    /\ df.EMA_12 = <<R(100)>>
    /\ df.MACD = <<R(0)>>
    /\ df.SMA_20 = <<NaN>>

-----------------------------------------------------------------------------
(* properties of the risk summary *)

MetricsReturned == data # None /\ metrics # Pending /\ metrics # None /\ metrics # Raised

\* the (integer) Close of row t, and the largest Close of rows 1..t
Price(t) == data.Close[t][1]
PeakTo(t) == CHOOSE m \in {Price(k) : k \in 1..t} : \A k \in 1..t : Price(k) <= m
DrawdownAt(t) == Frac(Price(t) - PeakTo(t), PeakTo(t))

\* C9: max drawdown is the least over the rows t of
\* (price[t] - max(price[0..t])) / max(price[0..t]); it is <= 0, and is 0 when
\* the prices never fall.
C9_MaxDrawdown ==
    MetricsReturned =>
        /\ \E t \in DataRows : metrics.Max_Drawdown = DrawdownAt(t)
        /\ \A t \in DataRows : FLe(metrics.Max_Drawdown, DrawdownAt(t))
        /\ FLe(metrics.Max_Drawdown, R(0))
        /\ NoFall(1, NRows(data)) => metrics.Max_Drawdown = R(0)

C9_Witness ==
    /\ MetricsReturned
    /\ NRows(data) = 42
    /\ NoFall(1, 42)
    /\ Price(1) = 1 /\ Price(42) = 3
    /\ metrics.Max_Drawdown = R(0)

\* the daily return of row t (t >= 2), from the integer Closes
ReturnAt(t) == Frac(Price(t) - Price(t - 1), Price(t - 1))
ReturnRows == 2..NRows(data)
TailRows == {t \in ReturnRows : FLe(ReturnAt(t), metrics.VaR_95)}

\* v is the cell at index k (from 0) of the sorted daily returns
IsSortedReturn(v, k) ==
    /\ \E t \in ReturnRows : ReturnAt(t) = v
    /\ Cardinality({t \in ReturnRows : FLt(ReturnAt(t), v)}) <= k
    /\ Cardinality({t \in ReturnRows : FLe(ReturnAt(t), v)}) > k

\* v interpolates linearly at the 5th percentile of the n daily returns:
\* 100 * (v - a[j]) = ((n-1) * 5 mod 100) * (a[j+1] - a[j]), j = (n-1) * 5 div 100
IsFifthPercentile(v) ==
    LET n == NRows(data) - 1
        j == ((n - 1) * 5) \div 100
    IN  \E t1, t2 \in ReturnRows :
            /\ IsSortedReturn(ReturnAt(t1), j)
            /\ IsSortedReturn(ReturnAt(t2), IF j + 1 > n - 1 THEN n - 1 ELSE j + 1)
            /\ FMul(R(100), FSub(v, ReturnAt(t1))) =
                   FMul(R(((n - 1) * 5) % 100), FSub(ReturnAt(t2), ReturnAt(t1)))

MetricKeys == {"Volatility", "Sharpe_Ratio", "Max_Drawdown", "VaR_95", "CVaR_95", "Total_Return"}
IsMetricsMapping(m) == DOMAIN m = MetricKeys

\* the daily returns of the series do not vary (a single return included)
ZeroDeviation == \A t \in ReturnRows : \A u \in ReturnRows : ReturnAt(t) = ReturnAt(u)

\* C11 as claimed: on a series of at least 2 rows whose daily returns do not
\* vary, calculate_risk_metrics does not raise, the Sharpe ratio is undefined
\* (neither finite nor infinite) and the other metrics are returned.
C11_SharpeUndefinedOnZeroDeviation ==
    (data # None /\ metrics # Pending /\ NRows(data) >= 2 /\ ZeroDeviation) =>
        /\ metrics # Raised
        /\ IsMetricsMapping(metrics)
        /\ metrics.Sharpe_Ratio = NaN

\* C12 as claimed: on a 1-row series calculate_risk_metrics ends with an
\* explicit insufficient-data outcome: it neither yields a metrics mapping
\* (computed from an empty set of returns) nor raises out of np.percentile.
C12_InsufficientHistoryOnOneRow ==
    (data # None /\ metrics # Pending /\ NRows(data) = 1) =>
        /\ ~IsMetricsMapping(metrics)
        /\ metrics # Raised

-----------------------------------------------------------------------------
(* properties of the analyzer *)

Called(op) == call # Pending /\ call.op = op
NothingGiven == is_none_or_empty(call.given)

\* C13, on the state after a call: given an empty or absent series each engine
\* returns None, and analyze_cryptocurrency returns None with none of its three
\* locals computed.
C13_NoResultReturned ==
    /\ (Called("calculate_technical_indicators") /\ NothingGiven) => returned = None
    /\ (Called("generate_signals") /\ NothingGiven) => returned = None
    /\ (Called("calculate_risk_metrics") /\ NothingGiven) => returned = None
    /\ (Called("analyze_cryptocurrency") /\ NothingGiven) =>
          /\ returned = None
          /\ df = Pending /\ signals = Pending /\ metrics = Pending

\* C13, on the step of a call: analyze_cryptocurrency with an empty or absent
\* series from the provider leaves analysis_results as it was.
C13_CacheKept ==
    (call'.op = "analyze_cryptocurrency" /\ is_none_or_empty(call'.given)) =>
        analysis_results' = analysis_results

\* C13: an empty or absent series gives no partial result at any stage, and
\* analyze_cryptocurrency then leaves the cache exactly as it was.
C13_EmptyInputNoPartialResults == [](C13_NoResultReturned) /\ [][C13_CacheKept]_vars

C13_Witness ==
    /\ Called("analyze_cryptocurrency")
    /\ call.given = OhlcvSeries(Rising, 0)
    /\ call.symbol \in DOMAIN analysis_results
    /\ returned = None

\* the series given to the last call has rows but no Close or no Volume column
MissingColumn ==
    /\ ~NothingGiven
    /\ ("Close" \notin DOMAIN call.given \/ "Volume" \notin DOMAIN call.given)

\* C14 as claimed: on a non-empty series lacking Close or Volume neither
\* calculate_technical_indicators nor analyze_cryptocurrency ends by raising: the
\* failure is a value returned to the caller.
C14_MissingColumnIsReturned ==
    ((Called("calculate_technical_indicators") \/ Called("analyze_cryptocurrency"))
        /\ MissingColumn) =>
        ~IsRaised(returned)

\* C15: calculate_technical_indicators, generate_signals and
\* calculate_risk_metrics leave the series they are given as it was (same rows,
\* columns and cells) and return another object; so does analyze_cryptocurrency
\* with the series of the provider, which gains no derived column.
C15_InputUnchanged ==
    (Called("calculate_technical_indicators") \/ Called("generate_signals")
        \/ Called("calculate_risk_metrics") \/ Called("analyze_cryptocurrency")) =>
        /\ data = call.given
        /\ ~call.aliased

C15_Witness ==
    /\ Called("analyze_cryptocurrency")
    /\ ~NothingGiven
    /\ NRows(call.given) = 2
    /\ "analysis_date" \in DOMAIN returned
    /\ "SMA_20" \in DOMAIN returned.data
    /\ "SMA_20" \notin DOMAIN data
    /\ "Final_Signal" \in DOMAIN signals

\* the last call was an analysis that ended with a result
Analysed == Called("analyze_cryptocurrency") /\ "analysis_date" \in DOMAIN returned

\* C19, on every state: the cache is empty until an analysis succeeds; the entry
\* of s is a result for s computed at a reading of the clock already made; after
\* a successful analysis of s the entry of s is the result just returned, dated
\* by the latest reading; save_analysis of a symbol without entry returns None.
C19_CacheHoldsLatest ==
    /\ clock = 0 => DOMAIN analysis_results = {}
    /\ \A s \in DOMAIN analysis_results :
          /\ s \in Symbols
          /\ analysis_results[s].symbol = s
          /\ analysis_results[s].analysis_date \in 1..clock
    /\ Analysed =>
          /\ call.symbol \in DOMAIN analysis_results
          /\ analysis_results[call.symbol] = returned
          /\ returned.analysis_date = clock
    /\ (Called("save_analysis") /\ call.symbol \notin DOMAIN analysis_results) =>
          returned = None

\* C19, on every step: a successful analysis of s adds or overwrites the entry of
\* s and no other; an analysis that does not succeed, save_analysis and the
\* engines called directly leave the cache as it was; save_analysis of a symbol
\* without entry writes no file.
C19_CacheStep ==
    LET op == call'.op
        s == call'.symbol
        success == op = "analyze_cryptocurrency" /\ "analysis_date" \in DOMAIN returned'
    IN  /\ success =>
              /\ DOMAIN analysis_results' = DOMAIN analysis_results \cup {s}
              /\ analysis_results'[s] = returned'
              /\ clock' = clock + 1
              /\ \A t \in DOMAIN analysis_results \ {s} :
                    analysis_results'[t] = analysis_results[t]
        /\ ~success => analysis_results' = analysis_results
        /\ (op = "save_analysis" /\ s \notin DOMAIN analysis_results) =>
              /\ returned' = None
              /\ files' = files

\* C19: analysis_results holds, for exactly the symbols analysed with success, the
\* result of the latest such analysis; a success touches the entry of its symbol
\* only; save_analysis never changes the cache and, for a symbol without entry,
\* returns None and writes nothing.
C19_CacheOfLatestResults == [](C19_CacheHoldsLatest) /\ [][C19_CacheStep]_vars

\* BTC analysed twice with a save in between and ETH never: the entry of BTC is
\* the second result
C19_Witness ==
    /\ Analysed
    /\ call.symbol = "BTC"
    /\ DOMAIN analysis_results = {"BTC"}
    /\ analysis_results["BTC"].analysis_date = 2
    /\ NRows(analysis_results["BTC"].data) = 2
    /\ files = {"btc_analysis.csv", "btc_signals.csv", "btc_metrics.txt"}

====
